---- MODULE Spec2Model ----
(***************************************************************************)
(* Model of macrobanks: the escrow pipeline of src/macrobanks/cbr/escrow.py  *)
(* (download_and_parse_excels -> build_pivots, with the pure helpers they    *)
(* call) and the two functions of src/macrobanks/routines/codes.py,          *)
(* apply_inbank_prefix and normalize_bank_name.  A Python str is a sequence  *)
(* of one-character strings; None and NaN are the one-element sequences      *)
(* <<"None">> and <<"NaN">>, which are no str.  A number is a reduced        *)
(* fraction <<num, den>>.                                                    *)
(***************************************************************************)
EXTENDS Integers, Sequences, FiniteSets, TLC

VARIABLES links, remote, disk, pc, i, frames, warned, result, last_link,
          pivots, indicators_order, full_regions_list, full_dates_list, raised,
          args, ret

vars == <<links, remote, disk, pc, i, frames, warned, result, last_link,
          pivots, indicators_order, full_regions_list, full_dates_list, raised,
          args, ret>>

(* ------------------------------------------------------------------------ *)
(* Python values                                                             *)
(* ------------------------------------------------------------------------ *)

\* Python's None (a missing period, a missing match).
None == <<"None">>

\* pandas' NaN (a blank cell, a missing matrix cell).
NaN == <<"NaN">>

\* The characters of the model in code point order; str comparison follows it.
Chars == <<" ", "*", "-", ".", "/", "0", "1", "2", "3", "4", "5", "6", "7", "8", "9",
           "A", "B", "F", "I", "N", "R", "X", "Y", "Z",
           "a", "b", "d", "f", "g", "h", "l", "n", "o", "p", "s", "t", "x">>

Ord(c) == CHOOSE k \in DOMAIN Chars : Chars[k] = c

Digits == {"0", "1", "2", "3", "4", "5", "6", "7", "8", "9"}

\* str < str of Python: lexicographic by code point, a proper prefix is smaller.
RECURSIVE StrLess(_, _)
StrLess(s, t) ==
    IF t = <<>> THEN FALSE
    ELSE IF s = <<>> THEN TRUE
    ELSE IF Head(s) = Head(t) THEN StrLess(Tail(s), Tail(t))
    ELSE Ord(Head(s)) < Ord(Head(t))

SeqToSet(s) == {s[k] : k \in DOMAIN s}

\* sorted(values) of a set of str: ascending.
RECURSIVE SortedStrs(_)
SortedStrs(S) ==
    IF S = {} THEN <<>>
    ELSE LET m == CHOOSE x \in S : \A y \in S \ {x} : StrLess(x, y)
         IN <<m>> \o SortedStrs(S \ {m})

\* Series.unique(): the distinct values in order of first appearance.
RECURSIVE Unique(_)
Unique(s) ==
    IF s = <<>> THEN <<>>
    ELSE LET r == Unique(SubSeq(s, 1, Len(s) - 1))
             x == s[Len(s)]
         IN IF x \in SeqToSet(r) THEN r ELSE Append(r, x)

RECURSIVE Gcd(_, _)
Gcd(a, b) == IF b = 0 THEN a ELSE Gcd(b, a % b)

\* A number as a reduced fraction.
Num(n) == <<n, 1>>

Reduce(n, d) == LET g == Gcd(n, d) IN IF g = 0 THEN <<0, 1>> ELSE <<n \div g, d \div g>>

RECURSIVE SumFracs(_)
SumFracs(s) ==
    IF s = <<>> THEN <<0, 1>>
    ELSE LET r == SumFracs(Tail(s))
         IN Reduce(Head(s)[1] * r[2] + r[1] * Head(s)[2], Head(s)[2] * r[2])

\* The arithmetic mean pivot_table takes over the non-missing values of a group.
Mean(s) ==
    LET t == SumFracs(s) IN Reduce(t[1], t[2] * Len(s))

(* ------------------------------------------------------------------------ *)
(* File names, dates, footnotes                                              *)
(* ------------------------------------------------------------------------ *)

\* The first position of s at which n digits stand in a row, 0 when none does.
FirstDigitRun(s, n) ==
    LET hits == {k \in 1..(Len(s) - n + 1) : \A j \in 0..(n - 1) : s[k + j] \in Digits}
    IN IF hits = {} THEN 0 ELSE CHOOSE k \in hits : \A j \in hits : k <= j

\* _extract_date_from_filename: DDMMYYYY -> YYYY-MM-DD, None without a token.
ExtractDateFromFilename(name) ==
    LET k == FirstDigitRun(name, 8)
    IN IF k = 0 THEN None
       ELSE SubSeq(name, k + 4, k + 7) \o <<"-">> \o SubSeq(name, k + 2, k + 3)
            \o <<"-">> \o SubSeq(name, k, k + 1)

\* re.sub(r"[\s\*\d]+$", "", s): drop the trailing run of blanks, '*' and digits.
RECURSIVE StripTrailing(_, _)
StripTrailing(s, set) ==
    IF s # <<>> /\ s[Len(s)] \in set THEN StripTrailing(SubSeq(s, 1, Len(s) - 1), set)
    ELSE s

RECURSIVE StripLeading(_, _)
StripLeading(s, set) ==
    IF s # <<>> /\ Head(s) \in set THEN StripLeading(Tail(s), set)
    ELSE s

\* clean_indicator_name
CleanIndicatorName(s) ==
    StripTrailing(StripTrailing(s, {" ", "*"} \cup Digits), {" "})

(* ------------------------------------------------------------------------ *)
(* One spreadsheet -> long records                                           *)
(* ------------------------------------------------------------------------ *)

\* A file is [kind, header, rows]: kind "xlsx" is a readable workbook whose row
\* 3 is header and whose later rows are rows; kind "corrupt" is no workbook.
\* A row holds the code cell, the region cell and one value cell per indicator.

\* The columns of a long frame: Регион, Показатель, Значение, Дата.
LongColumns == <<"Region", "Indicator", "Value", "Date">>

DigitStr(n) == <<Chars[5 + n + 1]>>

\* pd.read_excel names a repeated header h as h.1, h.2, ...
MangleDupeCols(header) ==
    [k \in DOMAIN header |->
        LET c == Cardinality({j \in 1..(k - 1) : header[j] = header[k]})
        IN IF c = 0 THEN header[k] ELSE header[k] \o <<".">> \o DigitStr(c)]

\* pd.read_excel(path, header=3): raises on a file that is no workbook.
ReadExcel(file) ==
    IF file.kind = "corrupt"
    THEN [ok |-> FALSE, columns |-> <<>>, rows |-> <<>>]
    ELSE [ok |-> TRUE, columns |-> MangleDupeCols(file.header), rows |-> file.rows]

\* astype(str) of a region cell: NaN becomes the text 'nan'.
AsTypeStr(cell) == IF cell = NaN THEN <<"n", "a", "n">> ELSE cell

Itogo == <<"I", "t", "o", "g", "o">>

ItogoPoRF == <<"I", "t", "o", "g", "o", " ", "p", "o", " ", "R", "F">>

\* The cleaning of the region column: astype(str), re.sub(r"\d+$", ""), strip(),
\* replace("Итого", "Итого по РФ").
CleanRegion(cell) ==
    LET s == AsTypeStr(cell)
        t == StripTrailing(StripLeading(StripTrailing(s, Digits), {" "}), {" "})
    IN IF t = Itogo THEN ItogoPoRF ELSE t

\* df[region_col].fillna(df.iloc[:, 0]): a blank region takes the code cell of its row.
FillRegion(row) == IF row[2] = NaN THEN row[1] ELSE row[2]

\* df.melt(id_vars=[region_col]): one record per indicator column and row,
\* column by column, the rows of a column in file order.
Melt(columns, rows, date_str) ==
    LET m == Len(rows)
        n == Len(columns) - 2
    IN [k \in 1..(n * m) |->
           LET c == 3 + ((k - 1) \div m)
               r == ((k - 1) % m) + 1
           IN [Region |-> FillRegion(rows[r]), Indicator |-> columns[c],
               Value |-> rows[r][c], Date |-> date_str]]

NotNaValue(rec) == rec.Value # NaN

CleanRecord(rec) ==
    [rec EXCEPT !.Indicator = CleanIndicatorName(rec.Indicator),
                !.Region = CleanRegion(rec.Region)]

\* parse_cbr_equity_file: ok = FALSE when it raises (read_excel on a file that
\* is no workbook, df.columns[1] on a sheet of fewer than two columns).
ParseCbrEquityFile(name, file) ==
    LET date_str == ExtractDateFromFilename(name)
        df == ReadExcel(file)
    IN IF ~df.ok \/ Len(df.columns) < 2
       THEN [ok |-> FALSE, columns |-> <<>>, rows |-> <<>>]
       ELSE LET long_df == SelectSeq(Melt(df.columns, df.rows, date_str), NotNaValue)
            IN [ok |-> TRUE, columns |-> LongColumns,
                rows |-> [k \in DOMAIN long_df |-> CleanRecord(long_df[k])]]

(* ------------------------------------------------------------------------ *)
(* download_and_parse_excels                                                 *)
(* ------------------------------------------------------------------------ *)

\* url.split("/")[-1]
RECURSIVE LastSegment(_)
LastSegment(url) ==
    IF url = <<>> \/ url[Len(url)] = "/" THEN <<>>
    ELSE Append(LastSegment(SubSeq(url, 1, Len(url) - 1)), url[Len(url)])

\* The download of the loop body: an absent local file is fetched, a present one kept.
Download(d, url) ==
    LET filename == LastSegment(url)
    IN IF filename \in DOMAIN d THEN d
       ELSE [n \in DOMAIN d \cup {filename} |-> IF n = filename THEN remote[url] ELSE d[n]]

\* An empty frame that lost its columns.
EmptyFrameNoColumns == [columns |-> <<>>, rows |-> <<>>]

\* pd.DataFrame(columns=[...]): the frame returned when no file parsed.
EmptyFrame == [columns |-> LongColumns, rows |-> <<>>]

RECURSIVE ConcatRows(_)
ConcatRows(fs) ==
    IF fs = <<>> THEN <<>> ELSE Head(fs).rows \o ConcatRows(Tail(fs))

\* pd.concat(frames, ignore_index=True)
Concat(fs) == [columns |-> Head(fs).columns, rows |-> ConcatRows(fs)]

\* frames.append(...) in the try block: only a parse that did not raise appends.
FramesAfter(fs, parsed) ==
    IF parsed.ok THEN Append(fs, [columns |-> parsed.columns, rows |-> parsed.rows]) ELSE fs

\* An except block that swallows the error without a warning.
WarnedAfterSilent(ws, parsed, filename) == ws

\* warnings.warn(...) in the except block: one call per parse that raised.
WarnedAfter(ws, parsed, filename) ==
    IF parsed.ok THEN ws ELSE Append(ws, filename)

\* One iteration of the loop over links.
ProcessFile ==
    /\ pc = "loop"
    /\ i <= Len(links)
    /\ LET url == links[i]
           filename == LastSegment(url)
           d == Download(disk, url)
           parsed == ParseCbrEquityFile(filename, d[filename])
       IN /\ disk' = d
          /\ frames' = FramesAfter(frames, parsed)
          /\ warned' = WarnedAfter(warned, parsed, filename)
    /\ i' = i + 1
    /\ UNCHANGED <<links, remote, pc, result, last_link, pivots, indicators_order,
                   full_regions_list, full_dates_list, raised, args, ret>>

\* The end of download_and_parse_excels.
AggregateResult(fs) == IF fs = <<>> THEN EmptyFrame ELSE Concat(fs)

Aggregate ==
    /\ pc = "loop"
    /\ i > Len(links)
    /\ result' = AggregateResult(frames)
    /\ pc' = "aggregated"
    /\ UNCHANGED <<links, remote, disk, i, frames, warned, last_link, pivots, indicators_order,
                   full_regions_list, full_dates_list, raised, args, ret>>

(* ------------------------------------------------------------------------ *)
(* build_pivot / build_pivots                                                *)
(* ------------------------------------------------------------------------ *)

ColumnOf(rows, field) == [k \in DOMAIN rows |-> rows[k][field]]

\* sorted(...) of the periods raises TypeError when None stands beside a str.
DatesSortable(rows) ==
    LET ds == SeqToSet(ColumnOf(rows, "Date"))
    IN ~(None \in ds /\ ds \ {None} # {})

\* full_dates_list = sorted(result["Дата"].unique())
FullDatesList(rows) ==
    LET ds == SeqToSet(ColumnOf(rows, "Date"))
    IN IF None \in ds THEN <<None>> ELSE SortedStrs(ds)

\* result["Дата"].max(): the greatest non-null period, NaN when there is none.
MaxDate(rows) ==
    LET ds == SeqToSet(ColumnOf(rows, "Date")) \ {None}
    IN IF ds = {} THEN NaN ELSE CHOOSE d \in ds : \A e \in ds \ {d} : StrLess(e, d)

\* A row universe taken over every period instead of the last one.
FullRegionsListAllPeriods(rows) == Unique(ColumnOf(rows, "Region"))

\* full_regions_list = result[result["Дата"] == max]["Регион"].unique().tolist()
FullRegionsList(rows) ==
    LET last_date == MaxDate(rows)
        AtLast(rec) == rec.Date = last_date
    IN Unique(ColumnOf(SelectSeq(rows, AtLast), "Region"))

\* A matrix is [index, columns, cell]: the row labels, the column labels and
\* the cell of every (row label, column label).

\* df_ind.pivot_table(index="Регион", columns="Дата", values="Значение"): the
\* groups with a null key are dropped, the labels sorted, a cell is the mean
\* of the values of its group and missing for an empty group.
PivotTable(rows) ==
    LET Keyed(rec) == rec.Date # None /\ rec.Region # NaN /\ rec.Value # NaN
        kept == SelectSeq(rows, Keyed)
        idx == SortedStrs(SeqToSet(ColumnOf(kept, "Region")))
        cols == SortedStrs(SeqToSet(ColumnOf(kept, "Date")))
    IN [index |-> idx, columns |-> cols,
        cell |-> [ep \in SeqToSet(idx) \X SeqToSet(cols) |->
                     LET InGroup(rec) == rec.Region = ep[1] /\ rec.Date = ep[2]
                         vals == ColumnOf(SelectSeq(kept, InGroup), "Value")
                     IN IF vals = <<>> THEN NaN ELSE Mean(vals)]]

\* pivot.reindex(labels): the rows become labels, a new row is all missing.
Reindex(m, labels) ==
    [index |-> labels, columns |-> m.columns,
     cell |-> [ep \in SeqToSet(labels) \X SeqToSet(m.columns) |->
                  IF ep \in DOMAIN m.cell THEN m.cell[ep] ELSE NaN]]

\* A matrix left with the columns of its own indicator.
ReindexColumnsSkipped(m, labels) == m

\* pivot.reindex(columns=labels)
ReindexColumns(m, labels) ==
    [index |-> m.index, columns |-> labels,
     cell |-> [ep \in SeqToSet(m.index) \X SeqToSet(labels) |->
                  IF ep \in DOMAIN m.cell THEN m.cell[ep] ELSE NaN]]

\* build_pivot with both universes given.
BuildPivot(rows, indicator, regions, dates) ==
    LET OfIndicator(rec) == rec.Indicator = indicator
        df_ind == SelectSeq(rows, OfIndicator)
    IN ReindexColumns(Reindex(PivotTable(df_ind), regions), dates)

\* _key of _detect_indicators_order_from_latest_file: the first run of eight
\* digits of the link, '' when there is none.
Key(u) ==
    LET k == FirstDigitRun(u, 8)
    IN IF k = 0 THEN <<>> ELSE SubSeq(u, k, k + 7)

\* sorted(links, key=_key, reverse=True)[0]: the first link of greatest key.
LastLink(ls) ==
    LET best == {k \in DOMAIN ls : \A j \in DOMAIN ls : ~StrLess(Key(ls[k]), Key(ls[j]))}
    IN ls[CHOOSE k \in best : \A j \in best : k <= j]

\* _detect_indicators_order_from_latest_file for a non-empty list of links.
DetectIndicatorsOrder(ls, d) ==
    LET last_local == LastSegment(LastLink(ls))
    IN IF last_local \notin DOMAIN d
       THEN [raised |-> "FileNotFoundError", order |-> <<>>]
       ELSE LET df_last == ReadExcel(d[last_local])
            IN IF ~df_last.ok
               THEN [raised |-> "BadZipFile", order |-> <<>>]
               ELSE [raised |-> "none",
                     order |-> [k \in 1..(Len(df_last.columns) - 2) |->
                                   CleanIndicatorName(df_last.columns[k + 2])]]

\* The indicator order of build_pivots: from the latest file when links are
\* given, else the sorted indicators of the data.
IndicatorsOrder(rows, ls, d) ==
    IF ls # <<>> THEN DetectIndicatorsOrder(ls, d)
    ELSE [raised |-> "none", order |-> SortedStrs(SeqToSet(ColumnOf(rows, "Indicator")))]

NoPivots == [ind \in {} |-> <<>>]

\* build_pivots: what it returns, or the exception it raises.
BuildPivotsOutcome(rows, ls, d) ==
    IF ~DatesSortable(rows)
    THEN [raised |-> "TypeError", pivots |-> NoPivots, indicators_order |-> <<>>,
          full_regions_list |-> <<>>, full_dates_list |-> <<>>]
    ELSE LET dates == FullDatesList(rows)
             regions == FullRegionsList(rows)
             ord == IndicatorsOrder(rows, ls, d)
         IN IF ord.raised # "none"
            THEN [raised |-> ord.raised, pivots |-> NoPivots, indicators_order |-> <<>>,
                  full_regions_list |-> <<>>, full_dates_list |-> <<>>]
            ELSE [raised |-> "none",
                  pivots |-> [ind \in SeqToSet(ord.order) |->
                                 BuildPivot(rows, ind, regions, dates)],
                  indicators_order |-> ord.order,
                  full_regions_list |-> regions, full_dates_list |-> dates]

BuildPivots ==
    /\ pc = "aggregated"
    /\ LET out == BuildPivotsOutcome(result.rows, links, disk)
       IN /\ pivots' = out.pivots
          /\ indicators_order' = out.indicators_order
          /\ full_regions_list' = out.full_regions_list
          /\ full_dates_list' = out.full_dates_list
          /\ raised' = out.raised
          /\ pc' = IF out.raised = "none" THEN "pivoted" ELSE "raised"
    /\ last_link' = IF links # <<>> /\ DatesSortable(result.rows) THEN LastLink(links) ELSE <<>>
    /\ UNCHANGED <<links, remote, disk, i, frames, warned, result, args, ret>>

(* ------------------------------------------------------------------------ *)
(* Inputs                                                                    *)
(* ------------------------------------------------------------------------ *)

\* The longest list of links of a run.
MaxLinks == 2

\* The most records of a dataset handed to build_pivots directly.
MaxRecords == 3

\* The most data rows of a generated spreadsheet.
MaxRows == 2

BoundedSeq(S, n) == UNION {[1..k -> S] : k \in 0..n}

Xlsx == <<".", "x", "l", "s", "x">>

Url(name) == <<"h", "/">> \o name \o Xlsx

NameJan23 == <<"3", "1", "0", "1", "2", "0", "2", "3">>
NameFeb24 == <<"0", "1", "0", "2", "2", "0", "2", "4">>
NameMar23 == <<"1", "5", "0", "3", "2", "0", "2", "3">>
NameBad24 == <<"0", "2", "0", "2", "2", "0", "2", "4">>
NameOne22 == <<"0", "3", "0", "1", "2", "0", "2", "2">>
NameFeb24b == <<"0", "1", "0", "2", "2", "0", "2", "4", "b">>
NameData == <<"d", "a", "t", "a">>

HdrN == <<"N">>
HdrR == <<"R">>
IndX == <<"X">>
IndY == <<"Y">>
IndZ == <<"Z">>
IndX1 == <<"X", " ", "1">>
IndX2 == <<"X", " ", "2">>
IndY1 == <<"Y", " ", "1", "*">>
RegA == <<"A">>
RegB == <<"B">>
RegA1 == <<"A", "1">>
RegF == <<"F">>
RegA1s == <<"A", " ", "1", "*">>

Workbook(header, rows) == [kind |-> "xlsx", header |-> header, rows |-> rows]

Corrupt == [kind |-> "corrupt", header |-> <<>>, rows |-> <<>>]

\* The files the server of the pipeline runs holds, by link.
Catalogue ==
    (Url(NameJan23) :> Workbook(<<HdrN, HdrR, IndX, IndY>>,
                                <<<<NaN, RegA, Num(1), Num(2)>>,
                                  <<RegF, NaN, Num(3), NaN>>>>)) @@
    (Url(NameFeb24) :> Workbook(<<HdrN, HdrR, IndX1, IndX2>>,
                                <<<<NaN, RegA1, Num(1), Num(3)>>,
                                  <<NaN, RegB, Num(2), NaN>>>>)) @@
    (Url(NameMar23) :> Workbook(<<HdrN, HdrR, IndX, IndX, IndZ>>,
                                <<<<NaN, Itogo, Num(5), Num(6), Num(8)>>>>)) @@
    (Url(NameFeb24b) :> Workbook(<<HdrN, HdrR, IndX>>,
                                 <<<<NaN, RegB, Num(4)>>,
                                   <<NaN, RegA, Num(5)>>>>)) @@
    (Url(NameData) :> Workbook(<<HdrN, HdrR, IndY>>,
                               <<<<NaN, RegA, Num(7)>>>>)) @@
    (Url(NameBad24) :> Corrupt) @@
    (Url(NameOne22) :> Workbook(<<HdrN>>, <<<<NaN>>>>))

\* The work directory after every file of a server was downloaded.
Downloaded(server) ==
    [n \in {LastSegment(u) : u \in DOMAIN server} |->
        server[CHOOSE u \in DOMAIN server : LastSegment(u) = n]]

NoFiles == [n \in {} |-> Corrupt]

\* result before download_and_parse_excels returned.
NoFrame == [columns |-> <<>>, rows |-> <<>>]

\* No call of a function of routines/codes.py has returned.
NoReturn == [raised |-> "none", value |-> None]

Idle ==
    /\ frames = <<>>
    /\ warned = <<>>
    /\ last_link = <<>>
    /\ pivots = NoPivots
    /\ indicators_order = <<>>
    /\ full_regions_list = <<>>
    /\ full_dates_list = <<>>
    /\ raised = "none"

\* No function of routines/codes.py is being called.
NoCall ==
    /\ args = <<>>
    /\ ret = NoReturn

\* A run of download_and_parse_excels and build_pivots over a list of links.
Init ==
    /\ remote = Catalogue
    /\ links \in BoundedSeq(DOMAIN Catalogue, MaxLinks)
    /\ disk = NoFiles
    /\ pc = "loop"
    /\ i = 1
    /\ result = NoFrame
    /\ Idle
    /\ NoCall

Next == ProcessFile \/ Aggregate \/ BuildPivots

Spec == Init /\ [][Next]_vars

\* The datasets handed to build_pivots directly.
PivotRecords ==
    [Region : {RegA, RegB}, Indicator : {IndX, IndY},
     Value : {Num(1), Num(2)}, Date : {ExtractDateFromFilename(NameJan23),
                                       ExtractDateFromFilename(NameFeb24)}]

PivotLinks == {<<>>, <<Url(NameJan23)>>, <<Url(NameFeb24)>>}

\* build_pivots called on any dataset, the files of the links already on disk.
InitPivot ==
    /\ remote = Catalogue
    /\ links \in PivotLinks
    /\ disk = Downloaded(Catalogue)
    /\ pc = "aggregated"
    /\ i = Len(links) + 1
    /\ \E rows \in BoundedSeq(PivotRecords, MaxRecords) :
           result = [columns |-> LongColumns, rows |-> rows]
    /\ Idle
    /\ NoCall

NextPivot == BuildPivots

SpecPivot == InitPivot /\ [][NextPivot]_vars

\* The spreadsheets parse_cbr_equity_file is run on.
ParseNames == {NameJan23, NameData}

ParseHeaders == {<<HdrN, HdrR, IndX>>, <<HdrN, HdrR, IndX, IndY1>>}

CodeCells == {NaN, RegF}

RegionCells == {NaN, RegA, RegA1, RegA1s}

ValueCells == {NaN, Num(7)}

RowsFor(header) ==
    {<<c, r>> \o v : c \in CodeCells, r \in RegionCells,
                     v \in [1..(Len(header) - 2) -> ValueCells]}

\* A run over one link whose file is any spreadsheet of the bounds.
InitParse ==
    /\ \E name \in ParseNames, header \in ParseHeaders :
         \E rows \in BoundedSeq(RowsFor(header), MaxRows) :
           /\ links = <<Url(name)>>
           /\ remote = (Url(name) :> Workbook(header, rows))
    /\ disk = NoFiles
    /\ pc = "loop"
    /\ i = 1
    /\ result = NoFrame
    /\ Idle
    /\ NoCall

NextParse == ProcessFile \/ Aggregate \/ BuildPivots

SpecParse == InitParse /\ [][NextParse]_vars

TypeOK == pc \in {"loop", "aggregated", "pivoted", "raised", "call", "returned", "returned_again"}

(* ------------------------------------------------------------------------ *)
(* Properties of build_pivots                                                *)
(* ------------------------------------------------------------------------ *)

RowsOf == result.rows

\* The non-null periods of the dataset.
Periods == {RowsOf[k].Date : k \in DOMAIN RowsOf} \ {None}

\* The entities with a record at a period no other period of the dataset exceeds.
EntitiesAtMaxPeriod ==
    {RowsOf[k].Region : k \in {j \in DOMAIN RowsOf :
        /\ RowsOf[j].Date \in Periods
        /\ \A d \in Periods : ~StrLess(RowsOf[j].Date, d)}}

Distinct(s) == \A j, k \in DOMAIN s : j # k => s[j] # s[k]

\* C1: after build_pivots, full_regions_list and the row labels of every
\* returned matrix are exactly the distinct entities that have a record at the
\* maximum period of the dataset.
C1_RowUniverseAtMaxPeriod ==
    pc = "pivoted" =>
        /\ SeqToSet(full_regions_list) = EntitiesAtMaxPeriod
        /\ Distinct(full_regions_list)
        /\ \A ind \in DOMAIN pivots : pivots[ind].index = full_regions_list

\* C1 witness: a matrix was built from a dataset in which one entity is seen
\* only before the maximum period and another only at it.
C1_Witness ==
    /\ pc = "pivoted"
    /\ pivots # NoPivots
    /\ \E a, b \in DOMAIN RowsOf :
         /\ RowsOf[a].Region \notin EntitiesAtMaxPeriod
         /\ RowsOf[b].Region \in EntitiesAtMaxPeriod
         /\ \A k \in DOMAIN RowsOf :
              RowsOf[k].Region = RowsOf[b].Region => RowsOf[k].Date = RowsOf[b].Date

Ascending(s) == \A j, k \in DOMAIN s : j < k => StrLess(s[j], s[k])

\* The distinct periods of the dataset, a null one included.
AllPeriods == {RowsOf[k].Date : k \in DOMAIN RowsOf}

\* C2: every returned matrix has the row labels and the column labels of every
\* other one, and the column labels are the ascending distinct periods of the
\* whole dataset.
C2_SharedShape ==
    pc = "pivoted" =>
        /\ \A a, b \in DOMAIN pivots :
             /\ pivots[a].index = pivots[b].index
             /\ pivots[a].columns = pivots[b].columns
        /\ \A a \in DOMAIN pivots :
             /\ SeqToSet(pivots[a].columns) = AllPeriods
             /\ Ascending(pivots[a].columns)

\* C2 witness: two matrices over two periods, one of them for an indicator
\* with no record at one of the periods.
C2_Witness ==
    /\ pc = "pivoted"
    /\ Cardinality(DOMAIN pivots) >= 2
    /\ Cardinality(Periods) >= 2
    /\ \E ind \in DOMAIN pivots, d \in Periods :
         /\ \E k \in DOMAIN RowsOf : RowsOf[k].Indicator = ind
         /\ \A k \in DOMAIN RowsOf : RowsOf[k].Indicator = ind => RowsOf[k].Date # d

\* The values of the records of entity e, indicator ind and period p.
ValuesAt(e, ind, p) ==
    {RowsOf[k].Value : k \in {j \in DOMAIN RowsOf :
        RowsOf[j].Region = e /\ RowsOf[j].Indicator = ind /\ RowsOf[j].Date = p}}

\* C3: in the matrix of indicator ind, the cell (e, p) is missing when the
\* dataset holds no record (e, ind, p, v), and otherwise holds the value of one
\* such record.
C3_CellsAreSourceValues ==
    pc = "pivoted" =>
        \A ind \in DOMAIN pivots :
            \A e \in SeqToSet(full_regions_list), p \in SeqToSet(full_dates_list) :
                LET c == pivots[ind].cell[<<e, p>>]
                IN IF ValuesAt(e, ind, p) = {} THEN c = NaN ELSE c \in ValuesAt(e, ind, p)

\* The file the indicator order was read from.
ReferenceFile == disk[LastSegment(last_link)]

\* C4: with links, the returned indicator order is the reference file's
\* indicator headers after footnote stripping, left to right, each name kept
\* only at its first occurrence.
C4_OrderIsDistinctHeaders ==
    (pc = "pivoted" /\ links # <<>>) =>
        LET hdr == ReferenceFile.header
        IN indicators_order =
             Unique([k \in 1..(Len(hdr) - 2) |-> CleanIndicatorName(hdr[k + 2])])

\* C5: every indicator of a record of the dataset has a matrix and a place in
\* the returned indicator order.
C5_EveryIndicatorIncluded ==
    pc = "pivoted" =>
        \A k \in DOMAIN RowsOf :
            /\ RowsOf[k].Indicator \in DOMAIN pivots
            /\ RowsOf[k].Indicator \in SeqToSet(indicators_order)

\* The period of a link: that of its file name.
PeriodOf(u) == ExtractDateFromFilename(LastSegment(u))

\* C6: with links that all carry a date, the file the order is read from is
\* one of maximum period.
C6_ReferenceIsMostRecent ==
    (pc \in {"pivoted", "raised"} /\ last_link # <<>>
        /\ \A k \in DOMAIN links : PeriodOf(links[k]) # None) =>
        \A k \in DOMAIN links : ~StrLess(PeriodOf(last_link), PeriodOf(links[k]))

(* ------------------------------------------------------------------------ *)
(* Properties of parse_cbr_equity_file and download_and_parse_excels         *)
(* ------------------------------------------------------------------------ *)

\* The blank value cells of a spreadsheet.
MissingValues(file) ==
    Cardinality({rc \in (DOMAIN file.rows) \X (3..Len(file.header)) :
                    file.rows[rc[1]][rc[2]] = NaN})

\* C7: the fragment of a file with N indicator columns and M rows holds
\* N*M minus (missing values) records, each with a non-null entity, indicator,
\* period and value.
C7_ParseCountAndNonNull ==
    (pc = "loop" /\ i = 2 /\ Len(frames) = 1) =>
        LET file == remote[links[1]]
            recs == frames[1].rows
        IN /\ Len(recs) = (Len(file.header) - 2) * Len(file.rows) - MissingValues(file)
           /\ \A k \in DOMAIN recs :
                /\ recs[k].Region \notin {None, NaN}
                /\ recs[k].Indicator \notin {None, NaN}
                /\ recs[k].Date \notin {None, NaN}
                /\ recs[k].Value \notin {None, NaN}

\* Whether the parse of the file of link k raises.
ParseFails(k) ==
    LET file == remote[links[k]]
    IN file.kind = "corrupt" \/ Len(file.header) < 2

\* The fragment of the file of link k.
FragmentOf(k) == ParseCbrEquityFile(LastSegment(links[k]), remote[links[k]]).rows

\* The fragments of the first n links that parse, in the order of the links.
RECURSIVE ParsedFragments(_)
ParsedFragments(n) ==
    IF n = 0 THEN <<>>
    ELSE ParsedFragments(n - 1) \o (IF ParseFails(n) THEN <<>> ELSE FragmentOf(n))

\* The file names of the first n links whose parse fails, in the order of the links.
RECURSIVE FailedNames(_)
FailedNames(n) ==
    IF n = 0 THEN <<>>
    ELSE FailedNames(n - 1) \o (IF ParseFails(n) THEN <<LastSegment(links[n])>> ELSE <<>>)

\* C8: whatever files fail to parse, the loop reaches the end of the links, the
\* result is the concatenation of the fragments of the files that parsed, and
\* there is one warning per failed file.
C8_FailuresAreIsolated ==
    /\ pc = "loop" => warned = FailedNames(i - 1)
    /\ pc # "loop" =>
         /\ i = Len(links) + 1
         /\ warned = FailedNames(Len(links))
    /\ pc \in {"aggregated", "pivoted", "raised"} /\ frames # <<>> =>
         result.rows = ParsedFragments(Len(links))
    /\ pc \in {"aggregated", "pivoted", "raised"} /\ frames = <<>> =>
         result.rows = <<>>

\* C8 witness: a run in which a file failed before another one parsed with records.
C8_Witness ==
    /\ pc = "aggregated"
    /\ Len(links) = 2
    /\ ParseFails(1)
    /\ ~ParseFails(2)
    /\ warned = <<LastSegment(links[1])>>
    /\ result.rows # <<>>

\* C9: when no file parsed, the result is empty and has exactly the canonical
\* columns.
C9_EmptyResultHasSchema ==
    (pc = "aggregated" /\ frames = <<>>) =>
        /\ result.rows = <<>>
        /\ result.columns = <<"Region", "Indicator", "Value", "Date">>

\* C9 witness: a run over links whose files all failed to parse.
C9_Witness ==
    /\ pc = "aggregated"
    /\ frames = <<>>
    /\ Len(links) = MaxLinks
    /\ Len(warned) = Len(links)

\* C10: on an empty aggregated dataset build_pivots raises nothing and returns
\* no pivot, without links and with links whose files all failed to parse.
C10_EmptyDatasetNoPivots ==
    (pc \in {"pivoted", "raised"} /\ result.rows = <<>>) =>
        /\ raised = "none"
        /\ pivots = NoPivots

(* ------------------------------------------------------------------------ *)
(* Order of the files                                                        *)
(* ------------------------------------------------------------------------ *)

\* The orderings of a list.
Perms(ls) ==
    {[k \in DOMAIN ls |-> ls[f[k]]] :
        f \in {g \in [DOMAIN ls -> DOMAIN ls] : \A a, b \in DOMAIN ls : a # b => g[a] # g[b]}}

\* The frames download_and_parse_excels collects over the links ls.
RECURSIVE RunFrames(_)
RunFrames(ls) ==
    IF ls = <<>> THEN <<>>
    ELSE LET url == ls[Len(ls)]
         IN FramesAfter(RunFrames(SubSeq(ls, 1, Len(ls) - 1)),
                        ParseCbrEquityFile(LastSegment(url), remote[url]))

\* What download_and_parse_excels returns for the links ls.
RunResult(ls) == AggregateResult(RunFrames(ls))

\* What build_pivots makes of that result, called with the same links.
RunOutcome(ls) == BuildPivotsOutcome(RunResult(ls).rows, ls, disk)

CountIn(rows, r) == Cardinality({k \in DOMAIN rows : rows[k] = r})

SameBag(a, b) ==
    \A r \in SeqToSet(a) \cup SeqToSet(b) : CountIn(a, r) = CountIn(b, r)

\* C11: for every other ordering of the links, download_and_parse_excels
\* yields the same multiset of records and build_pivots the same matrices,
\* with the same row labels, column labels and cells.
C11_OrderOfFilesIrrelevant ==
    pc \in {"pivoted", "raised"} =>
        \A p \in Perms(links) :
            /\ SameBag(result.rows, RunResult(p).rows)
            /\ RunOutcome(p).raised = raised
            /\ RunOutcome(p).pivots = pivots

\* The part of C11 about the records alone.
C11_SameRecords ==
    pc \in {"pivoted", "raised"} =>
        \A p \in Perms(links) : SameBag(result.rows, RunResult(p).rows)

(* ------------------------------------------------------------------------ *)
(* Names and entities of the parsed records                                  *)
(* ------------------------------------------------------------------------ *)

\* The characters of a footnote marker.
Footnote == {" ", "*"} \cup Digits

\* out is raw without its whole trailing run of footnote characters.
StrippedOf(raw, out) ==
    /\ Len(out) <= Len(raw)
    /\ out = SubSeq(raw, 1, Len(out))
    /\ \A k \in (Len(out) + 1)..Len(raw) : raw[k] \in Footnote
    /\ out = <<>> \/ out[Len(out)] \notin Footnote

\* C16: in every record of a parsed file the indicator is a header and the
\* entity an entity cell without the whole trailing run of blanks, digits and
\* asterisks, so that stripping again changes nothing.
C16_FootnotesStripped ==
    (pc = "loop" /\ i = 2 /\ Len(frames) = 1) =>
        LET file == remote[links[1]]
            recs == frames[1].rows
        IN \A k \in DOMAIN recs :
             /\ \E c \in 3..Len(file.header) : StrippedOf(file.header[c], recs[k].Indicator)
             /\ \E r \in DOMAIN file.rows :
                  StrippedOf(AsTypeStr(FillRegion(file.rows[r])), recs[k].Region)

\* The part of C16 about the indicator names alone.
C16_IndicatorsStripped ==
    (pc = "loop" /\ i = 2 /\ Len(frames) = 1) =>
        LET file == remote[links[1]]
            recs == frames[1].rows
        IN \A k \in DOMAIN recs :
             \E c \in 3..Len(file.header) : StrippedOf(file.header[c], recs[k].Indicator)

\* C18: the entity of a record comes from the region cell of its row, or from
\* the code cell of that row when the region cell is blank, and is neither null
\* nor the text 'nan'.
C18_EntityRecovered ==
    (pc = "loop" /\ i = 2 /\ Len(frames) = 1) =>
        LET file == remote[links[1]]
            recs == frames[1].rows
        IN \A k \in DOMAIN recs :
             /\ recs[k].Region \notin {None, NaN, <<"n", "a", "n">>}
             /\ \E r \in DOMAIN file.rows :
                  /\ recs[k].Value \in {file.rows[r][c] : c \in 3..Len(file.header)}
                  /\ recs[k].Region =
                       CleanRegion(IF file.rows[r][2] # NaN THEN file.rows[r][2]
                                   ELSE file.rows[r][1])

\* The part of C18 about rows whose code cell is not blank.
C18_RecoveredFromCode ==
    (pc = "loop" /\ i = 2 /\ Len(frames) = 1) =>
        LET file == remote[links[1]]
            recs == frames[1].rows
        IN (\A r \in DOMAIN file.rows : file.rows[r][1] # NaN) =>
            \A k \in DOMAIN recs :
             /\ recs[k].Region \notin {None, NaN, <<"n", "a", "n">>}
             /\ \E r \in DOMAIN file.rows :
                  /\ recs[k].Value \in {file.rows[r][c] : c \in 3..Len(file.header)}
                  /\ recs[k].Region =
                       CleanRegion(IF file.rows[r][2] # NaN THEN file.rows[r][2]
                                   ELSE file.rows[r][1])

(* ------------------------------------------------------------------------ *)
(* routines/codes.py: apply_inbank_prefix                                    *)
(* ------------------------------------------------------------------------ *)

\* The cased letters: Latin ones are themselves, a Cyrillic one is written as
\* its transliteration followed by "^" ("B^" for the capital BE, "b^" for
\* the small one).
UpperLetters ==
    <<"A", "B", "C", "D", "E", "F", "G", "H", "I", "J", "K", "L", "M", "N", "O", "P", "Q", "R", "S", "T", "U", "V", "W", "X", "Y", "Z",
      "A^", "B^", "V^", "G^", "D^", "E^", "ZH^", "Z^", "I^", "J^", "K^", "L^", "M^", "N^", "O^", "P^", "R^",
      "S^", "T^", "U^", "F^", "H^", "C^", "CH^", "SH^", "SCH^", "QQ^", "Y^", "Q^", "EH^", "YU^", "YA^", "YO^">>

LowerLetters ==
    <<"a", "b", "c", "d", "e", "f", "g", "h", "i", "j", "k", "l", "m", "n", "o", "p", "q", "r", "s", "t", "u", "v", "w", "x", "y", "z",
      "a^", "b^", "v^", "g^", "d^", "e^", "zh^", "z^", "i^", "j^", "k^", "l^", "m^", "n^", "o^", "p^", "r^",
      "s^", "t^", "u^", "f^", "h^", "c^", "ch^", "sh^", "sch^", "qq^", "y^", "q^", "eh^", "yu^", "ya^", "yo^">>

\* str.lower() and str.upper() of one character.
LowerChar(c) ==
    IF \E j \in DOMAIN UpperLetters : UpperLetters[j] = c
    THEN LowerLetters[CHOOSE j \in DOMAIN UpperLetters : UpperLetters[j] = c]
    ELSE c

UpperChar(c) ==
    IF \E j \in DOMAIN LowerLetters : LowerLetters[j] = c
    THEN UpperLetters[CHOOSE j \in DOMAIN LowerLetters : LowerLetters[j] = c]
    ELSE c

\* str.lower()
Lower(s) == [k \in DOMAIN s |-> LowerChar(s[k])]

\* str.upper()
Upper(s) == [k \in DOMAIN s |-> UpperChar(s[k])]

\* Whether sub stands in s at the 0-based position k.
StartsWithAt(s, sub, k) ==
    /\ k >= 0
    /\ k + Len(sub) <= Len(s)
    /\ SubSeq(s, k + 1, k + Len(sub)) = sub

\* str.find(sub, start): the lowest 0-based position from start on, -1 when absent.
Find(s, sub, start) ==
    LET hits == {k \in start..(Len(s) - Len(sub)) : StartsWithAt(s, sub, k)}
    IN IF hits = {} THEN -1 ELSE CHOOSE k \in hits : \A j \in hits : k <= j

\* The whitespace of the model: str.strip() and \s take the same characters.
Whitespace == {" ", "\t", "nbsp"}

\* str.strip()
Strip(s) == StripLeading(StripTrailing(s, Whitespace), Whitespace)

\* isinstance(v, str)
IsStr(v) == v \notin {None, NaN}

Raise(e) == [raised |-> e, value |-> None]

Return(v) == [raised |-> "none", value |-> v]

DotRu == <<".", "r", "u">>

SchemeSep == <<":", "/", "/">>

\* apply_inbank_prefix
ApplyInbankPrefix(INBANK_API_PREFIX, original_url) ==
    IF ~IsStr(INBANK_API_PREFIX) \/ ~IsStr(original_url) THEN Raise("ValueError")
    ELSE LET prefix == StripTrailing(INBANK_API_PREFIX, {"/"})
             tail == Strip(LastSegment(prefix))
             s == Strip(original_url)
             lower == Lower(s)
             scheme_pos == Find(lower, SchemeSep, 0)
             start == IF scheme_pos # -1 THEN scheme_pos + 3 ELSE 0
             pos_tail == Find(lower, Lower(tail), start)
             pos_ru == Find(lower, DotRu, pos_tail)
             remainder == SubSeq(s, pos_ru + 3 + 1, Len(s))
         IN IF "/" \notin SeqToSet(prefix) THEN Raise("ValueError")
            ELSE IF tail = <<>> THEN Raise("ValueError")
            ELSE IF pos_tail = -1 THEN Raise("ValueError")
            ELSE IF pos_ru = -1 THEN Raise("ValueError")
            ELSE IF remainder # <<>> /\ remainder[1] \in {"/", "?", "#"}
                 THEN Return(prefix \o remainder)
                 ELSE Return(prefix \o <<"/">> \o remainder)

\* One call of apply_inbank_prefix(args[1], args[2]).
ApplyPrefix ==
    /\ pc = "call"
    /\ Len(args) = 2
    /\ ret' = ApplyInbankPrefix(args[1], args[2])
    /\ pc' = "returned"
    /\ UNCHANGED <<links, remote, disk, i, frames, warned, result, last_link, pivots,
                   indicators_order, full_regions_list, full_dates_list, raised, args>>

\* The pipeline is not running.
NoRun ==
    /\ links = <<>>
    /\ remote = Catalogue
    /\ disk = NoFiles
    /\ i = 1
    /\ result = NoFrame
    /\ Idle

Prefixes == {<<"h", "t", "t", "p", "s", ":", "/", "/", "g", "a", "t", "e", ".", "x", "/", "e", "x", "/", "c", "b", "r">>,
             <<"h", "t", "t", "p", "s", ":", "/", "/", "g", "a", "t", "e", ".", "x", "/", "e", "x", "/", "c", "b", "r", "/">>,
             <<"c", "b", "r">>,
             <<"h", "t", "t", "p", "s", ":", "/", "/", "g", "a", "t", "e", ".", "x", "/", "e", "x", "/", "m", "o", "e", "x">>,
             None}

Schemes == {<<>>, <<"h", "t", "t", "p", "s", ":", "/", "/">>}

Hosts == {<<"w", "w", "w", ".", "c", "b", "r", ".", "r", "u">>,
          <<"w", "w", "w", ".", "c", "b", "r", ".", "c", "o", "m">>,
          <<"c", "b", "r", ".", "r", "u", "b", "i", "n", ".", "c", "o", "m">>,
          <<"w", "w", "w", ".", "m", "o", "e", "x", ".", "r", "u">>,
          <<"w", "w", "w", ".", "C", "B", "R", ".", "r", "u">>,
          <<"c", "b", "r", ".", "g", "o", "v", ".", "r", "u">>,
          <<"w", "w", "w", ".", "a", "b", "c", ".", "r", "u">>}

Paths == {<<>>,
          <<"/", "a", "/", "b">>,
          <<"/", "a", ".", "r", "u", "/", "b">>,
          <<"?", "q", "=", "1">>,
          <<"/", "c", "b", "r", "/", "x">>}

Urls == {sch \o h \o p : sch \in Schemes, h \in Hosts, p \in Paths} \cup {None}

\* apply_inbank_prefix called on any prefix and URL of the sets above.
InitUrl ==
    /\ pc = "call"
    /\ args \in {<<p, u>> : p \in Prefixes, u \in Urls}
    /\ ret = NoReturn
    /\ NoRun

NextUrl == ApplyPrefix

SpecUrl == InitUrl /\ [][NextUrl]_vars

\* The host of a URL: from the end of the scheme to the first '/', '?' or '#'.
HostOf(url) ==
    LET sp == Find(url, SchemeSep, 0)
        start == IF sp # -1 THEN sp + 3 ELSE 0
        ends == {k \in (start + 1)..Len(url) : url[k] \in {"/", "?", "#"}}
        stop == IF ends = {} THEN Len(url) + 1 ELSE CHOOSE k \in ends : \A j \in ends : k <= j
    IN [host |-> SubSeq(url, start + 1, stop - 1), rest |-> SubSeq(url, stop, Len(url))]

\* The host ends with the domain suffix '.ru' and holds the segment before it.
RuSuffixFollows(tail, url) ==
    LET host == Lower(HostOf(url).host)
    IN /\ Len(host) >= 3
       /\ SubSeq(host, Len(host) - 2, Len(host)) = DotRu
       /\ Find(SubSeq(host, 1, Len(host) - 3), Lower(tail), 0) # -1

ValidCall ==
    /\ pc = "returned"
    /\ Len(args) = 2
    /\ IsStr(args[1])
    /\ IsStr(args[2])
    /\ "/" \in SeqToSet(StripTrailing(args[1], {"/"}))

\* C12: apply_inbank_prefix returns the prefix (no trailing '/') followed by
\* what follows the '.ru' domain suffix of the host holding the prefix's last
\* segment, and raises ValueError for every URL where that segment is absent
\* or no '.ru' domain suffix follows it ('.ru' only in the path, or '.ru'
\* starting a longer label).
C12_PrefixApplied ==
    ValidCall =>
        LET prefix == StripTrailing(args[1], {"/"})
            rest == HostOf(args[2]).rest
        IN IF RuSuffixFollows(LastSegment(prefix), args[2])
           THEN ret \in {Return(prefix \o rest), Return(prefix \o <<"/">> \o rest)}
           ELSE ret = Raise("ValueError")

\* The part of C12 the code keeps: a host that ends in '.ru' after the
\* segment is replaced by the prefix.
C12_RuHostReplaced ==
    ValidCall /\ RuSuffixFollows(LastSegment(StripTrailing(args[1], {"/"})), args[2]) =>
        LET prefix == StripTrailing(args[1], {"/"})
            rest == HostOf(args[2]).rest
        IN ret \in {Return(prefix \o rest), Return(prefix \o <<"/">> \o rest)}

\* The example of the docstring.
C12_Example ==
    ApplyInbankPrefix(<<"h", "t", "t", "p", "s", ":", "/", "/", "g", "a", "t", "e", ".", "x", "/", "e", "x", "/", "c", "b", "r">>,
                      <<"h", "t", "t", "p", "s", ":", "/", "/", "w", "w", "w", ".", "c", "b", "r", ".", "r", "u", "/", "a", "/", "b">>)
        = Return(<<"h", "t", "t", "p", "s", ":", "/", "/", "g", "a", "t", "e", ".", "x", "/", "e", "x", "/", "c", "b", "r", "/", "a", "/", "b">>)

(* ------------------------------------------------------------------------ *)
(* Python's re, as far as normalize_bank_name uses it.  A pattern is a       *)
(* sequence of items; MatchFrom lists the positions where a match starting   *)
(* at position k may end, in the order the backtracking matcher tries them,  *)
(* so that the head of the list is the match re takes.  Position k stands    *)
(* before the k-th character.                                                *)
(* ------------------------------------------------------------------------ *)

\* \w and \s of a str pattern.
IsWord(c) ==
    \/ c \in SeqToSet(UpperLetters) \cup SeqToSet(LowerLetters)
    \/ c \in Digits \cup {"_"}

IsSpace(c) == c \in Whitespace

\* The items of a pattern, each a one-item pattern.
Lit(str) == <<[t |-> "lit", str |-> str]>>

In(chars, cats) == <<[t |-> "in", neg |-> FALSE, chars |-> chars, cats |-> cats]>>

NotIn(chars, cats) == <<[t |-> "in", neg |-> TRUE, chars |-> chars, cats |-> cats]>>

Rep(min, max, p) == <<[t |-> "rep", min |-> min, max |-> max, p |-> p]>>

Alt(alts) == <<[t |-> "alt", alts |-> alts]>>

At(where) == <<[t |-> "at", where |-> where]>>

Look(dir, neg, p) == <<[t |-> "look", dir |-> dir, neg |-> neg, p |-> p]>>

\* MAXREPEAT
Inf == -1

\* \s*, \s+, \w*, \S+, \b
S0 == Rep(0, Inf, In({}, {"s"}))

S1 == Rep(1, Inf, In({}, {"s"}))

W0 == Rep(0, Inf, In({}, {"w"}))

B == At("b")

\* [...] with or without re.I
InClass(it, c, ci) ==
    LET hit(x) == \/ x \in it.chars
                  \/ "w" \in it.cats /\ IsWord(x)
                  \/ "s" \in it.cats /\ IsSpace(x)
                  \/ "S" \in it.cats /\ ~IsSpace(x)
    IN (hit(c) \/ (ci /\ (hit(UpperChar(c)) \/ hit(LowerChar(c))))) # it.neg

\* \b, ^ and $ at position k
AtHolds(where, s, k) ==
    CASE where = "b" -> (k > 1 /\ IsWord(s[k - 1])) # (k <= Len(s) /\ IsWord(s[k]))
      [] where = "bos" -> k = 1
      [] where = "eos" -> k = Len(s) + 1

RECURSIVE MatchFrom(_, _, _, _)
RECURSIVE ItemEnds(_, _, _, _)
RECURSIVE Continue(_, _, _, _)
RECURSIVE AltEnds(_, _, _, _)
RECURSIVE RepEnds(_, _, _, _, _)
RECURSIVE RepMore(_, _, _, _, _)

\* The ends of the matches of the pattern p that start at k.
MatchFrom(p, s, k, ci) ==
    IF p = <<>> THEN <<k>> ELSE Continue(ItemEnds(Head(p), s, k, ci), Tail(p), s, ci)

Continue(ends, rest, s, ci) ==
    IF ends = <<>> THEN <<>>
    ELSE MatchFrom(rest, s, Head(ends), ci) \o Continue(Tail(ends), rest, s, ci)

AltEnds(alts, s, k, ci) ==
    IF alts = <<>> THEN <<>>
    ELSE MatchFrom(Head(alts), s, k, ci) \o AltEnds(Tail(alts), s, k, ci)

\* A greedy repeat: one more round first, then none.
RepEnds(it, s, k, ci, n) ==
    LET round == SelectSeq(MatchFrom(it.p, s, k, ci), LAMBDA e : e > k)
        more == IF it.max = Inf \/ n < it.max THEN RepMore(round, it, s, ci, n + 1) ELSE <<>>
    IN more \o (IF n >= it.min THEN <<k>> ELSE <<>>)

RepMore(ends, it, s, ci, n) ==
    IF ends = <<>> THEN <<>>
    ELSE RepEnds(it, s, Head(ends), ci, n) \o RepMore(Tail(ends), it, s, ci, n)

ItemEnds(it, s, k, ci) ==
    CASE it.t = "lit" ->
           IF /\ k + Len(it.str) - 1 <= Len(s)
              /\ \A j \in DOMAIN it.str :
                    \/ s[k + j - 1] = it.str[j]
                    \/ ci /\ UpperChar(s[k + j - 1]) = UpperChar(it.str[j])
           THEN <<k + Len(it.str)>> ELSE <<>>
      [] it.t = "in" -> IF k <= Len(s) /\ InClass(it, s[k], ci) THEN <<k + 1>> ELSE <<>>
      [] it.t = "rep" -> RepEnds(it, s, k, ci, 0)
      [] it.t = "alt" -> AltEnds(it.alts, s, k, ci)
      [] it.t = "at" -> IF AtHolds(it.where, s, k) THEN <<k>> ELSE <<>>
      [] it.t = "look" ->
           LET found == IF it.dir = 1 THEN MatchFrom(it.p, s, k, ci) # <<>>
                        ELSE k > 1 /\ k \in SeqToSet(MatchFrom(it.p, s, k - 1, ci))
           IN IF found # it.neg THEN <<k>> ELSE <<>>

\* A compiled pattern: its items and whether re.I is set.
Re(items, ci) == [items |-> items, ci |-> ci]

\* The least position of a set of positions, 0 for the empty set.
Least(S) == IF S = {} THEN 0 ELSE CHOOSE j \in S : \A m \in S : j <= m

\* The first of the ends a match from k has, 0 when there is none.  No
\* pattern of normalize_bank_name matches the empty string.
FirstEnd(ends, k) == IF ends # <<>> /\ Head(ends) > k THEN Head(ends) ELSE 0

\* The end of the match re takes at k, 0 when there is none.
MatchEnd(pat, s, k) == FirstEnd(MatchFrom(pat.items, s, k, pat.ci), k)

\* pattern.search(s)
Search(pat, s) == \E k \in 1..(Len(s) + 1) : MatchFrom(pat.items, s, k, pat.ci) # <<>>

\* The start of the leftmost match at or after k, 0 when there is none.
NextMatch(pat, s, k) == Least({j \in k..Len(s) : MatchEnd(pat, s, j) # 0})

RECURSIVE ReSubFrom(_, _, _, _)
RECURSIVE ReSubAt(_, _, _, _, _)

\* The text from k on, the match that starts at j (0: none) and every later one replaced.
ReSubAt(pat, repl, s, k, j) ==
    IF j = 0 THEN SubSeq(s, k, Len(s))
    ELSE SubSeq(s, k, j - 1) \o repl \o ReSubFrom(pat, repl, s, MatchEnd(pat, s, j))

ReSubFrom(pat, repl, s, k) == ReSubAt(pat, repl, s, k, NextMatch(pat, s, k))

\* re.sub(pattern, repl, s): leftmost matches, none overlapping.
ReSub(pat, repl, s) == ReSubFrom(pat, repl, s, 1)

RECURSIVE FindIterFrom(_, _, _)
RECURSIVE FindIterAt(_, _, _)
RECURSIVE FindIterTo(_, _, _, _)

FindIterTo(pat, s, j, e) == <<SubSeq(s, j, e - 1)>> \o FindIterFrom(pat, s, e)

FindIterAt(pat, s, j) == IF j = 0 THEN <<>> ELSE FindIterTo(pat, s, j, MatchEnd(pat, s, j))

FindIterFrom(pat, s, k) == FindIterAt(pat, s, NextMatch(pat, s, k))

\* [m.group(0) for m in pattern.finditer(s)]
FindIter(pat, s) == FindIterFrom(pat, s, 1)

(* ------------------------------------------------------------------------ *)
(* routines/codes.py: normalize_bank_name, on one name                       *)
(* ------------------------------------------------------------------------ *)

\* sorted(seq, key=key, reverse=True) on a sequence of [key, val]: descending
\* and stable.  A key is a tuple of numbers, ordered lexicographically.
KeyLess(a, b) ==
    \E k \in DOMAIN a : a[k] < b[k] /\ \A j \in 1..(k - 1) : a[j] = b[j]

\* The first of the elements with the greatest key.
FirstMax(seq) ==
    CHOOSE j \in DOMAIN seq :
        /\ \A m \in DOMAIN seq : ~KeyLess(seq[j].key, seq[m].key)
        /\ \A m \in 1..(j - 1) : KeyLess(seq[m].key, seq[j].key)

RECURSIVE SortKeyedReverse(_)
RECURSIVE TakeFirst(_, _)

TakeFirst(seq, j) ==
    <<seq[j].val>> \o SortKeyedReverse(SubSeq(seq, 1, j - 1) \o SubSeq(seq, j + 1, Len(seq)))

SortKeyedReverse(seq) == IF seq = <<>> THEN <<>> ELSE TakeFirst(seq, FirstMax(seq))

\* ПАО, АО, ОАО, ООО, ЗАО, НКО-ЦК, НКО, АКБ, КБ, КИНБ, АБ, МАБ, МБО, МБ
ORDERED_TAGS ==
    <<<<"P^", "A^", "O^">>,
      <<"A^", "O^">>,
      <<"O^", "A^", "O^">>,
      <<"O^", "O^", "O^">>,
      <<"Z^", "A^", "O^">>,
      <<"N^", "K^", "O^", "-", "C^", "K^">>,
      <<"N^", "K^", "O^">>,
      <<"A^", "K^", "B^">>,
      <<"K^", "B^">>,
      <<"K^", "I^", "N^", "B^">>,
      <<"A^", "B^">>,
      <<"M^", "A^", "B^">>,
      <<"M^", "B^", "O^">>,
      <<"M^", "B^">>>>

\* The dashes and the spaces of the two classes that the model has characters for.
DASHES == In({"ndash", "mdash"}, {})

SPACES == In({"nbsp"}, {})

\* The legal-form phrases: the pattern, its replacement, and len() of the pattern's text.
OPF ==
    <<\* НКО-ЦК
      [p |-> B \o Lit(<<"n^", "e^", "b^", "a^", "n^", "k^", "o^", "v^", "s^", "k^", "a^", "ya^">>)
             \o S1 \o Lit(<<"k^", "r^", "e^", "d^", "i^", "t^", "n^", "a^", "ya^">>) \o S1
             \o Lit(<<"o^", "r^", "g^", "a^", "n^", "i^", "z^", "a^", "c^", "i^", "ya^">>) \o B
             \o Alt(<<S0 \o In({"-", "mdash", "ndash"}, {}) \o S0, S0 \o Lit(<<"(">>) \o S0, S1>>)
             \o S0 \o Lit(<<"c^", "e^", "n^", "t^", "r^", "a^", "l^", "q^", "n^", "y^", "j^">>)
             \o S1 \o Lit(<<"k^", "o^", "n^", "t^", "r^", "a^", "g^", "e^", "n^", "t^">>) \o B
             \o Rep(0, 1, Lit(<<")">>)),
       r |-> <<"N^", "K^", "O^", "-", "C^", "K^">>, plen |-> 102],
      \* НКО-ЦК
      [p |-> B \o Lit(<<"n^", "k^", "o^">>) \o B
             \o Alt(<<S0 \o In({"-", "mdash", "ndash"}, {}) \o S0, S0 \o Lit(<<"(">>) \o S0, S1>>)
             \o S0 \o Lit(<<"c^", "e^", "n^", "t^", "r^", "a^", "l^", "q^", "n^", "y^", "j^">>)
             \o S1 \o Lit(<<"k^", "o^", "n^", "t^", "r^", "a^", "g^", "e^", "n^", "t^">>) \o B
             \o Rep(0, 1, Lit(<<")">>)),
       r |-> <<"N^", "K^", "O^", "-", "C^", "K^">>, plen |-> 67],
      \* АО
      [p |-> B \o Lit(<<"n^", "e^">>) \o S0
             \o Lit(<<"p^", "u^", "b^", "l^", "i^", "ch^", "n^", "o^", "e^">>) \o S1
             \o Lit(<<"a^", "k^", "c^", "i^", "o^", "n^", "e^", "r^", "n^", "o^", "e^">>) \o S1
             \o Lit(<<"o^", "b^", "sch^", "e^", "s^", "t^", "v^", "o^">>) \o B,
       r |-> <<"A^", "O^">>, plen |-> 43],
      \* ПАО
      [p |-> B \o Lit(<<"p^", "u^", "b^", "l^", "i^", "ch^", "n^", "o^", "e^">>) \o S1
             \o Lit(<<"a^", "k^", "c^", "i^", "o^", "n^", "e^", "r^", "n^", "o^", "e^">>) \o S1
             \o Lit(<<"o^", "b^", "sch^", "e^", "s^", "t^", "v^", "o^">>) \o B,
       r |-> <<"P^", "A^", "O^">>, plen |-> 38],
      \* АО
      [p |-> B \o Lit(<<"a^", "k^", "c^", "i^", "o^", "n^", "e^", "r^", "n^", "o^", "e^">>) \o S1
             \o Lit(<<"o^", "b^", "sch^", "e^", "s^", "t^", "v^", "o^">>) \o B,
       r |-> <<"A^", "O^">>, plen |-> 26],
      \* ОАО
      [p |-> B \o Lit(<<"o^", "t^", "k^", "r^", "y^", "t^", "o^", "e^">>) \o S1
             \o Lit(<<"a^", "k^", "c^", "i^", "o^", "n^", "e^", "r^", "n^", "o^", "e^">>) \o S1
             \o Lit(<<"o^", "b^", "sch^", "e^", "s^", "t^", "v^", "o^">>) \o B,
       r |-> <<"O^", "A^", "O^">>, plen |-> 37],
      \* ЗАО
      [p |-> B \o Lit(<<"z^", "a^", "k^", "r^", "y^", "t^", "o^", "e^">>) \o S1
             \o Lit(<<"a^", "k^", "c^", "i^", "o^", "n^", "e^", "r^", "n^", "o^", "e^">>) \o S1
             \o Lit(<<"o^", "b^", "sch^", "e^", "s^", "t^", "v^", "o^">>) \o B,
       r |-> <<"Z^", "A^", "O^">>, plen |-> 37],
      \* ООО
      [p |-> B \o Lit(<<"o^", "b^", "sch^", "e^", "s^", "t^", "v^", "o^">>) \o S1 \o Lit(<<"s^">>)
             \o S1
             \o Lit(<<"o^", "g^", "r^", "a^", "n^", "i^", "ch^", "e^", "n^", "n^", "o^", "j^">>)
             \o S1
             \o Lit(<<"o^", "t^", "v^", "e^", "t^", "s^", "t^", "v^", "e^", "n^", "n^", "o^", "s^", "t^", "q^", "yu^">>)
             \o B,
       r |-> <<"O^", "O^", "O^">>, plen |-> 50],
      \* НКО
      [p |-> B \o Lit(<<"n^", "e^", "b^", "a^", "n^", "k^", "o^", "v^", "s^", "k^", "a^", "ya^">>)
             \o S1 \o Lit(<<"k^", "r^", "e^", "d^", "i^", "t^", "n^", "a^", "ya^">>) \o S1
             \o Lit(<<"o^", "r^", "g^", "a^", "n^", "i^", "z^", "a^", "c^", "i^", "ya^">>) \o B,
       r |-> <<"N^", "K^", "O^">>, plen |-> 42],
      \* АКБ
      [p |-> B \o Lit(<<"a^", "k^", "c^", "i^", "o^", "n^", "e^", "r^", "n^", "y^", "j^">>) \o S1
             \o Lit(<<"k^", "o^", "m^", "m^", "e^", "r^", "ch^", "e^", "s^", "k^", "i^", "j^">>)
             \o S1 \o Lit(<<"b^", "a^", "n^", "k^">>) \o B,
       r |-> <<"A^", "K^", "B^">>, plen |-> 37],
      \* КБ
      [p |-> B \o Lit(<<"k^", "o^", "m^", "m^", "e^", "r^", "ch^", "e^", "s^", "k^", "i^", "j^">>)
             \o S1 \o Lit(<<"b^", "a^", "n^", "k^">>) \o B,
       r |-> <<"K^", "B^">>, plen |-> 23],
      \* КИНБ
      [p |-> B \o Lit(<<"k^", "o^", "m^", "m^", "e^", "r^", "ch^", "e^", "s^", "k^", "i^", "j^">>)
             \o S1
             \o Lit(<<"i^", "n^", "v^", "e^", "s^", "t^", "i^", "c^", "i^", "o^", "n^", "n^", "y^", "j^">>)
             \o S1 \o Lit(<<"n^", "a^", "r^", "o^", "d^", "n^", "y^", "j^">>) \o S1
             \o Lit(<<"b^", "a^", "n^", "k^">>) \o B,
       r |-> <<"K^", "I^", "N^", "B^">>, plen |-> 51],
      \* АБ
      [p |-> B \o Lit(<<"a^", "k^", "c^", "i^", "o^", "n^", "e^", "r^", "n^", "y^", "j^">>) \o S1
             \o Lit(<<"b^", "a^", "n^", "k^">>) \o B,
       r |-> <<"A^", "B^">>, plen |-> 22],
      \* МАБ
      [p |-> B
             \o Lit(<<"m^", "e^", "zh^", "r^", "e^", "g^", "i^", "o^", "n^", "a^", "l^", "q^", "n^", "y^", "j^">>)
             \o S1 \o Lit(<<"a^", "k^", "c^", "i^", "o^", "n^", "e^", "r^", "n^", "y^", "j^">>)
             \o S1 \o Lit(<<"b^", "a^", "n^", "k^">>) \o B,
       r |-> <<"M^", "A^", "B^">>, plen |-> 40],
      \* МБО
      [p |-> B
             \o Lit(<<"m^", "e^", "zh^", "b^", "a^", "n^", "k^", "o^", "v^", "s^", "k^", "o^", "e^">>)
             \o S1 \o Lit(<<"o^", "b^", "qq^", "e^", "d^", "i^", "n^", "e^", "n^", "i^", "e^">>)
             \o B,
       r |-> <<"M^", "B^", "O^">>, plen |-> 31],
      \* МБ
      [p |-> B
             \o Lit(<<"m^", "e^", "zh^", "d^", "u^", "n^", "a^", "r^", "o^", "d^", "n^", "y^", "j^">>)
             \o S1 \o Lit(<<"b^", "a^", "n^", "k^">>) \o B,
       r |-> <<"M^", "B^">>, plen |-> 24]>>

OpfKey(pr) == <<Len(pr.r), pr.plen>>

\* OPF after line 108: the longer replacement first, then the longer pattern.
OPF_sorted == SortKeyedReverse([k \in DOMAIN OPF |-> [key |-> OpfKey(OPF[k]), val |-> OPF[k]]])

SPECIAL ==
    <<\* НАЦИОНАЛЬНЫЙ РАСЧЕТНЫЙ ЦЕНТР
      [pat |-> B \o Lit(<<"n^">>)
               \o Alt(<<Lit(<<"a^", "c^">>)
                           \o Rep(0, 1, Lit(<<"i^", "o^", "n^", "a^", "l^", "q^", "n^">>) \o W0)
                           \o S1 \o Lit(<<"r^", "a^", "s^">>) \o In({"ch^", "sh^"}, {})
                           \o Rep(0, 1, Lit(<<"e^">>)) \o Lit(<<"t^", "n^">>) \o W0 \o S1
                           \o Lit(<<"c^", "e^", "n^", "t^", "r^">>),
                        Lit(<<"r^", "c^">>),
                        Lit(<<"a^", "c^">>) \o S0 \o Lit(<<"r^", "c^">>)>>)
               \o B,
       tg |-> <<<<"N^", "K^", "O^">>, <<"A^", "O^">>>>, canon |-> 
                <<"N^", "A^", "C^", "I^", "O^", "N^", "A^", "L^", "Q^", "N^", "Y^", "J^", " ">>
                \o <<"R^", "A^", "S^", "CH^", "E^", "T^", "N^", "Y^", "J^", " ">>
                \o <<"C^", "E^", "N^", "T^", "R^">>],
      \* НАЦИОНАЛЬНЫЙ РАСЧЕТНЫЙ ДЕПОЗИТАРИЙ
      [pat |-> B \o Lit(<<"n^">>)
               \o Alt(<<Lit(<<"a^", "c^">>)
                           \o Rep(0, 1, Lit(<<"i^", "o^", "n^", "a^", "l^", "q^", "n^">>) \o W0)
                           \o S1 \o Lit(<<"r^", "a^", "s^">>) \o In({"ch^", "sh^"}, {})
                           \o Rep(0, 1, Lit(<<"e^">>)) \o Lit(<<"t^", "n^">>) \o W0 \o S1
                           \o Lit(<<"d^", "e^", "p^", "o^", "z^", "i^", "t^", "a^", "r^">>) \o W0,
                        Lit(<<"r^", "d^">>)>>)
               \o B,
       tg |-> <<<<"N^", "K^", "O^">>, <<"A^", "O^">>>>, canon |-> 
                <<"N^", "A^", "C^", "I^", "O^", "N^", "A^", "L^", "Q^", "N^", "Y^", "J^", " ">>
                \o <<"R^", "A^", "S^", "CH^", "E^", "T^", "N^", "Y^", "J^", " ">>
                \o <<"D^", "E^", "P^", "O^", "Z^", "I^", "T^", "A^", "R^", "I^", "J^">>],
      \* ПЕТЕРБУРГСКИЙ РАСЧЕТНЫЙ ЦЕНТР
      [pat |-> B
               \o Alt(<<Lit(<<"p^", "e^", "t^", "e^", "r^", "b^", "u^", "r^", "g^", "s^", "k^">>)
                           \o W0 \o S1 \o Lit(<<"r^", "a^", "s^">>) \o In({"ch^", "sh^"}, {})
                           \o Rep(0, 1, Lit(<<"e^">>)) \o Lit(<<"t^", "n^">>) \o W0 \o S1
                           \o Lit(<<"c^", "e^", "n^", "t^", "r^">>),
                        Lit(<<"p^", "r^", "c^">>),
                        Lit(<<"s^", "p^", "b^">>) \o S0 \o Lit(<<"r^", "c^">>)>>)
               \o B,
       tg |-> <<<<"N^", "K^", "O^">>, <<"A^", "O^">>>>, canon |-> 
                <<"P^", "E^", "T^", "E^", "R^", "B^", "U^", "R^", "G^", "S^", "K^", "I^", "J^", " ">>
                \o <<"R^", "A^", "S^", "CH^", "E^", "T^", "N^", "Y^", "J^", " ">>
                \o <<"C^", "E^", "N^", "T^", "R^">>]>>

\* The curated aliases, in the order of the dict.
ERR_FIX ==
    <<\* Россельхозбанк -> РСХБ
      [old |-> <<"R^", "o^", "s^", "s^", "e^", "l^", "q^", "h^", "o^", "z^", "b^", "a^", "n^", "k^">>,
       new |-> <<"R^", "S^", "H^", "B^">>],
      \* Россельхоз банк -> РСХБ
      [old |-> <<"R^", "o^", "s^", "s^", "e^", "l^", "q^", "h^", "o^", "z^", " ", "b^", "a^", "n^", "k^">>,
       new |-> <<"R^", "S^", "H^", "B^">>],
      \* Тинькофф Банк -> Т-Банк
      [old |-> <<"T^", "i^", "n^", "q^", "k^", "o^", "f^", "f^", " ", "B^", "a^", "n^", "k^">>,
       new |-> <<"T^", "-", "B^", "a^", "n^", "k^">>],
      \* Тинькофф-Банк -> Т-Банк
      [old |-> <<"T^", "i^", "n^", "q^", "k^", "o^", "f^", "f^", "-", "B^", "a^", "n^", "k^">>,
       new |-> <<"T^", "-", "B^", "a^", "n^", "k^">>],
      \* Т Банк -> Т-Банк
      [old |-> <<"T^", " ", "B^", "a^", "n^", "k^">>,
       new |-> <<"T^", "-", "B^", "a^", "n^", "k^">>],
      \* Тинькофф -> Т-Банк
      [old |-> <<"T^", "i^", "n^", "q^", "k^", "o^", "f^", "f^">>,
       new |-> <<"T^", "-", "B^", "a^", "n^", "k^">>],
      \* ТБанк -> Т-Банк
      [old |-> <<"T^", "B^", "a^", "n^", "k^">>,
       new |-> <<"T^", "-", "B^", "a^", "n^", "k^">>],
      \* Райффайзен банк -> Райффайзенбанк
      [old |-> <<"R^", "a^", "j^", "f^", "f^", "a^", "j^", "z^", "e^", "n^", " ", "b^", "a^", "n^", "k^">>,
       new |-> <<"R^", "a^", "j^", "f^", "f^", "a^", "j^", "z^", "e^", "n^", "b^", "a^", "n^", "k^">>],
      \* Сбербанк России -> Сбербанк
      [old |-> <<"S^", "b^", "e^", "r^", "b^", "a^", "n^", "k^", " ", "R^", "o^", "s^", "s^", "i^", "i^">>,
       new |-> <<"S^", "b^", "e^", "r^", "b^", "a^", "n^", "k^">>],
      \* Сбер -> Сбербанк
      [old |-> <<"S^", "b^", "e^", "r^">>,
       new |-> <<"S^", "b^", "e^", "r^", "b^", "a^", "n^", "k^">>],
      \* МТС Банк -> МТС-Банк
      [old |-> <<"M^", "T^", "S^", " ", "B^", "a^", "n^", "k^">>,
       new |-> <<"M^", "T^", "S^", "-", "B^", "a^", "n^", "k^">>]>>

\* str(x) of a scalar: a missing value prints as 'nan'.
Str(x) == IF x = NaN THEN <<"n", "a", "n">> ELSE x

\* str.replace(old, new) for one character
ReplaceChar(s, old, new) == [k \in DOMAIN s |-> IF s[k] = old THEN new ELSE s[k]]

\* str.translate of line 141: the quotes are deleted, '_' becomes ' '.
Translate(s) == ReplaceChar(SelectSeq(s, LAMBDA c : c \notin {"laquo", "raquo", "ldquo", "rdquo", "\"", "'"}), "_", " ")

\* _std
Std(x) ==
    LET s0 == IF x = None THEN <<>> ELSE Str(x)
        s1 == ReplaceChar(ReplaceChar(s0, "YO^", "E^"), "yo^", "e^")
        s2 == ReSub(Re(SPACES, FALSE), <<" ">>, s1)
        s3 == ReSub(Re(DASHES, FALSE), <<"-">>, s2)
        s4 == Translate(s3)
        s5 == ReSub(Re(Rep(2, Inf, Lit(<<".">>)), FALSE), <<".">>, s4)
        s6 == ReSub(Re(NotIn({".", "-", "(", ")"}, {"w", "s"}), FALSE), <<" ">>, s5)
    IN Strip(ReSub(Re(S1, FALSE), <<" ">>, s6))

\* The aliases as _apply_err_fix takes them: the longest key first.
ErrFixLen(fix) == <<Len(fix.old)>>

ErrFixKeyed == [k \in DOMAIN ERR_FIX |-> [key |-> ErrFixLen(ERR_FIX[k]), val |-> ERR_FIX[k]]]

ErrFixOrderShortestFirst == [k \in DOMAIN ERR_FIX |-> SortKeyedReverse(ErrFixKeyed)[Len(ERR_FIX) + 1 - k]]

ErrFixOrder == SortKeyedReverse(ErrFixKeyed)

\* (?<!\w)old(?!\w) with re.I
ErrFixRe(old) == Re(Look(-1, TRUE, In({}, {"w"})) \o Lit(old) \o Look(1, TRUE, In({}, {"w"})), TRUE)

RECURSIVE ErrFixLoop(_, _)
ErrFixLoop(fixes, s) ==
    IF fixes = <<>> \/ s = <<>> THEN s
    ELSE ErrFixLoop(Tail(fixes), ReSub(ErrFixRe(Head(fixes).old), Head(fixes).new, s))

\* _apply_err_fix
ApplyErrFix(s) == ErrFixLoop(ErrFixOrder, s)

RECURSIVE OpfLoop(_, _)
OpfLoop(opf, s) ==
    IF opf = <<>> \/ s = <<>> THEN s
    ELSE OpfLoop(Tail(opf), ReSub(Re(Head(opf).p, TRUE), Head(opf).r, s))

\* _apply_opf
ApplyOpf(s) == OpfLoop(OPF_sorted, s)

TagLen(t) == <<Len(t)>>

TAG_ALTS ==
    SortKeyedReverse([k \in DOMAIN ORDERED_TAGS |-> [key |-> TagLen(ORDERED_TAGS[k]), val |-> ORDERED_TAGS[k]]])

\* \b(?:tag|tag|...)\b, the longest tag first
TAG_RE == Re(B \o Alt([k \in DOMAIN TAG_ALTS |-> Lit(TAG_ALTS[k])]) \o B, FALSE)

\* _collect_tags_longest_first
CollectTagsLongestFirst(upper) ==
    LET found == SeqToSet(FindIter(TAG_RE, upper))
    IN SelectSeq(ORDERED_TAGS, LAMBDA t : t \in found)

RECURSIVE StripLoop(_, _, _)
StripLoop(out, tags, ci) ==
    IF tags = <<>> \/ out = <<>> THEN out
    ELSE StripLoop(ReSub(Re(B \o Lit(Head(tags)) \o B, ci), <<" ">>, out), Tail(tags), ci)

\* _strip
StripTags(base, tags, ci) ==
    LET o1 == StripLoop(base, tags, ci)
        o2 == ReplaceChar(ReplaceChar(o1, "(", " "), ")", " ")
        o3 == ReSub(Re(NotIn({".", "-"}, {"w", "s"}), FALSE), <<" ">>, o2)
        o4 == ReSub(Re(S0 \o Lit(<<"-">>) \o S0, FALSE), <<"-">>, o3)
        o5 == ReSub(Re(At("bos") \o S0 \o Lit(<<"-">>) \o S0, FALSE), <<>>, o4)
    IN Strip(ReSub(Re(S1, FALSE), <<" ">>, o5))

\* str.title() of a canonical name: a letter after a letter is lowered.
Title(s) ==
    [k \in DOMAIN s |->
        IF k > 1 /\ UpperChar(s[k - 1]) # LowerChar(s[k - 1]) THEN LowerChar(s[k]) ELSE UpperChar(s[k])]

\* ' '.join(words)
RECURSIVE Join(_)
Join(words) ==
    IF words = <<>> THEN <<>>
    ELSE IF Len(words) = 1 THEN Head(words)
    ELSE Head(words) \o <<" ">> \o Join(Tail(words))

\* The first special case whose pattern is found in up, 0 when none is.
SpecialCase(up) == Least({k \in DOMAIN SPECIAL : Search(Re(SPECIAL[k].pat, TRUE), up)})

\* Step 5 of _one: the tags and the remainder put together.
Assemble(tags, rem, placement) ==
    IF placement = "omit" THEN rem
    ELSE IF placement = "right"
         THEN IF tags # <<>> /\ rem # <<>> THEN rem \o <<" ", "(">> \o Join(tags) \o <<")">>
              ELSE IF tags # <<>> THEN <<"(">> \o Join(tags) \o <<")">>
              ELSE rem
    ELSE IF tags # <<>> /\ rem # <<>> THEN Strip(Join(Append(tags, rem)))
         ELSE IF rem # <<>> THEN rem
         ELSE Strip(Join(tags))

\* Step 6 of _one: the word at the edges picked by drop_bank.
DropLeft(res, drop_bank) ==
    IF drop_bank \in {"left", "both"} THEN ReSub(Re(At("bos") \o S0 \o Lit(<<"B^", "A^", "N^", "K^">>) \o S1 \o Look(1, FALSE, In({}, {"S"})), TRUE), <<>>, res)
    ELSE res

DropRight(res, drop_bank) ==
    IF drop_bank \in {"right", "both"} THEN ReSub(Re(Look(-1, FALSE, In({}, {"S"})) \o S1 \o Lit(<<"B^", "A^", "N^", "K^">>) \o S0 \o At("eos"), TRUE), <<>>, res)
    ELSE res

DropBank(res, drop_bank) == DropRight(DropLeft(res, drop_bank), drop_bank)

\* The end of group 1 and of the whole match of (group)rest, the ends of the
\* group tried in the order of the matcher; <<>> when there is no match.
RECURSIVE GroupEnds(_, _, _, _)
RECURSIVE GroupTry(_, _, _, _, _)

GroupTry(ends, rest, s, ci, after) ==
    IF after # <<>> THEN <<Head(ends), Head(after)>>
    ELSE GroupEnds(Tail(ends), rest, s, ci)

GroupEnds(ends, rest, s, ci) ==
    IF ends = <<>> THEN <<>>
    ELSE GroupTry(ends, rest, s, ci, MatchFrom(rest, s, Head(ends), ci))

\* The start of the leftmost match of (group)rest at or after k, 0 when there is none.
NextGroupMatch(group, rest, s, ci, k) ==
    Least({j \in k..Len(s) : GroupEnds(MatchFrom(group, s, j, ci), rest, s, ci) # <<>>})

RECURSIVE ReSubGroupFrom(_, _, _, _, _)
RECURSIVE ReSubGroupAt(_, _, _, _, _, _)
RECURSIVE ReSubGroupTo(_, _, _, _, _, _)

ReSubGroupTo(group, rest, s, ci, k, e) ==
    SubSeq(s, k, e[1] - 1) \o ReSubGroupFrom(group, rest, s, ci, e[2])

ReSubGroupAt(group, rest, s, ci, k, j) ==
    IF j = 0 THEN SubSeq(s, k, Len(s))
    ELSE ReSubGroupTo(group, rest, s, ci, k, GroupEnds(MatchFrom(group, s, j, ci), rest, s, ci))

ReSubGroupFrom(group, rest, s, ci, k) ==
    ReSubGroupAt(group, rest, s, ci, k, NextGroupMatch(group, rest, s, ci, k))

\* re.sub(r'(group)rest', r'\1', s)
ReSubGroup(group, rest, s, ci) == ReSubGroupFrom(group, rest, s, ci, 1)

\* Line 220: (?i)(\b\S+-БАНК)\s+БАНК\b becomes group 1.
DropDuplicateBank(res) ==
    ReSubGroup(B \o Rep(1, Inf, In({}, {"S"})) \o Lit(<<"-", "B^", "A^", "N^", "K^">>),
               S1 \o Lit(<<"B^", "A^", "N^", "K^">>) \o B, res, TRUE)

\* Steps 4 and 5 of _one on the general path: the tags found, the rest stripped of them.
AssembleTags(s, up, tags, placement, case_mode) ==
    Assemble(tags,
             StripTags(IF case_mode = "upper" THEN up ELSE s, tags, case_mode # "upper"),
             placement)

\* Steps 4 and 5 of _one: the special case found in up (0: none), or the general path.
AssembleCase(s, up, special, placement, case_mode) ==
    IF special # 0
    THEN Assemble(SelectSeq(ORDERED_TAGS, LAMBDA t : t \in SeqToSet(SPECIAL[special].tg)),
                  IF case_mode = "upper" THEN SPECIAL[special].canon
                  ELSE Title(SPECIAL[special].canon),
                  placement)
    ELSE AssembleTags(s, up, CollectTagsLongestFirst(up), placement, case_mode)

\* Steps 1 to 5 of _one: the name as it stands before step 6.
AssembleText(s, placement, case_mode) ==
    AssembleCase(s, Upper(s), SpecialCase(Upper(s)), placement, case_mode)

Assembled(x, placement, case_mode) ==
    AssembleText(ApplyOpf(ApplyErrFix(Std(x))), placement, case_mode)

\* x or None
OrNone(x) == IF x = <<>> THEN None ELSE x

\* Step 7 of _one, the last clean-up, and the return value.
CleanSpaces(res) == Strip(ReSub(Re(S1, FALSE), <<" ">>, ReSub(Re(S0 \o Lit(<<"-">>) \o S0, FALSE), <<"-">>, res)))

FinalCleanup(res, case_mode) ==
    OrNone(IF case_mode = "upper" THEN Upper(CleanSpaces(res)) ELSE CleanSpaces(res))

\* Steps 6 and 7 of _one.
Finish(res, case_mode, drop_bank) ==
    FinalCleanup(DropDuplicateBank(DropBank(res, drop_bank)), case_mode)

\* _one
One(x, placement, case_mode, drop_bank) ==
    IF x = None \/ Strip(Str(x)) = <<>> THEN None
    ELSE Finish(Assembled(x, placement, case_mode), case_mode, drop_bank)

\* normalize_bank_name on a scalar
NormalizeBankName(name, placement, case_mode, drop_bank) ==
    IF placement \notin {"left", "right", "omit"} THEN Raise("ValueError")
    ELSE IF case_mode \notin {"upper", "preserve"} THEN Raise("ValueError")
    ELSE IF drop_bank \notin {"keep", "left", "right", "both"} THEN Raise("ValueError")
    ELSE Return(One(name, placement, case_mode, drop_bank))

(* ------------------------------------------------------------------------ *)
(* Calls of normalize_bank_name                                              *)
(* ------------------------------------------------------------------------ *)

MaxWords == 2

\* The words names are made of.
Words ==
    {<<"S^", "b^", "e^", "r^">>,
     <<"R^", "o^", "s^", "s^", "i^", "i^">>,
     <<"T^", "i^", "n^", "q^", "k^", "o^", "f^", "f^">>,
     <<"B^", "a^", "n^", "k^">>,
     <<"T^", "-", "B^", "a^", "n^", "k^">>,
     <<"T^", "i^", "n^", "q^", "k^", "o^", "f^", "f^", "-", "B^", "a^", "n^", "k^">>,
     <<"B^", "a^", "n^", "k^", "-", "M^", "o^", "s^", "k^", "v^", "a^">>,
     <<"A^", "O^">>,
     <<"a^", "k^", "c^", "i^", "o^", "n^", "e^", "r^", "n^", "o^", "e^">>,
     <<"o^", "b^", "sch^", "e^", "s^", "t^", "v^", "o^">>}

\* ' '.join of up to MaxWords words
Names == {Join(ws) : ws \in BoundedSeq(Words, MaxWords)}

\* None, NaN, blank strings and strings of punctuation only.
Blanks ==
    {None,
     NaN,
     <<>>,
     <<" ">>,
     <<"\t">>,
     <<" ", "nbsp">>,
     <<"-">>,
     <<"(", ")">>,
     <<"laquo", "raquo">>,
     <<"_">>,
     <<".", ".", ".">>}

\* (placement, case_mode, drop_bank)
Params ==
    {<<"left", "upper", "keep">>,
     <<"left", "upper", "left">>,
     <<"left", "upper", "right">>,
     <<"left", "upper", "both">>,
     <<"right", "preserve", "keep">>,
     <<"omit", "upper", "keep">>}

\* One call of normalize_bank_name(args[1], placement=args[2], case_mode=args[3], drop_bank=args[4]).
NormalizeName ==
    /\ pc = "call"
    /\ Len(args) = 4
    /\ ret' = NormalizeBankName(args[1], args[2], args[3], args[4])
    /\ pc' = "returned"
    /\ UNCHANGED <<links, remote, disk, i, frames, warned, result, last_link, pivots,
                   indicators_order, full_regions_list, full_dates_list, raised, args>>

\* The caller hands the returned name to normalize_bank_name again.
NormalizeAgain ==
    /\ pc = "returned"
    /\ Len(args) = 4
    /\ ret.raised = "none"
    /\ args' = <<ret.value, args[2], args[3], args[4]>>
    /\ ret' = NormalizeBankName(ret.value, args[2], args[3], args[4])
    /\ pc' = "returned_again"
    /\ UNCHANGED <<links, remote, disk, i, frames, warned, result, last_link, pivots,
                   indicators_order, full_regions_list, full_dates_list, raised>>

\* normalize_bank_name called on any name of the sets above.
InitName ==
    /\ pc = "call"
    /\ args \in {<<n>> \o p : n \in Names \cup Blanks, p \in Params}
    /\ ret = NoReturn
    /\ NoRun

NextName == NormalizeName \/ NormalizeAgain

SpecName == InitName /\ [][NextName]_vars

\* Names made of alias words only, for the order of the aliases.
AliasWords ==
    {<<"T^", "i^", "n^", "q^", "k^", "o^", "f^", "f^">>,
     <<"B^", "a^", "n^", "k^">>,
     <<"T^", "i^", "n^", "q^", "k^", "o^", "f^", "f^", "-", "B^", "a^", "n^", "k^">>,
     <<"S^", "b^", "e^", "r^", "b^", "a^", "n^", "k^">>,
     <<"R^", "o^", "s^", "s^", "i^", "i^">>,
     <<"S^", "b^", "e^", "r^">>}

AliasParams == {<<"left", "upper", "keep">>, <<"right", "preserve", "keep">>}

InitAlias ==
    /\ pc = "call"
    /\ args \in {<<Join(ws)>> \o p : ws \in BoundedSeq(AliasWords, MaxWords), p \in AliasParams}
    /\ ret = NoReturn
    /\ NoRun

NextAlias == NormalizeName \/ NormalizeAgain

SpecAlias == InitAlias /\ [][NextAlias]_vars

(* ------------------------------------------------------------------------ *)
(* Properties of normalize_bank_name                                         *)
(* ------------------------------------------------------------------------ *)

\* normalize_bank_name has returned from its first call.
NameCall == pc = "returned" /\ Len(args) = 4

\* None, NaN, the empty string, or whitespace only.
IsBlank(x) == x \in {None, NaN} \/ Strip(x) = <<>>

\* C13: for every blank or null input (None, NaN, '', whitespace only)
\* normalize_bank_name returns None without raising, and for no input does it
\* return the empty string.
C13_BlankGivesNone ==
    NameCall =>
        /\ ret.raised = "none"
        /\ ret.value # <<>>
        /\ IsBlank(args[1]) => ret.value = None

\* The part of C13 the code keeps: no exception, no empty string, and None
\* for None, '' and whitespace.
C13_NoEmptyString ==
    NameCall =>
        /\ ret.raised = "none"
        /\ ret.value # <<>>
        /\ (IsBlank(args[1]) /\ args[1] # NaN) => ret.value = None

\* C14: with case_mode='upper' and placement='left' normalize_bank_name is
\* idempotent: the name returned for a returned name is that name.
C14_Idempotent ==
    (pc = "returned_again" /\ args[2] = "left" /\ args[3] = "upper") => ret.value = args[1]

\* The pairs of aliases of which the first is a leading part of the second.
AliasPairs ==
    {pr \in (DOMAIN ERR_FIX) \X (DOMAIN ERR_FIX) :
        /\ Len(ERR_FIX[pr[1]].old) < Len(ERR_FIX[pr[2]].old)
        /\ Upper(SubSeq(ERR_FIX[pr[2]].old, 1, Len(ERR_FIX[pr[1]].old))) = Upper(ERR_FIX[pr[1]].old)}

\* The alias stands in the text as _apply_err_fix looks for it.
HasAlias(text, old) == NextMatch(ErrFixRe(old), text, 1) # 0

\* The aliases _apply_err_fix takes after the alias old.
AliasesAfter(old) ==
    LET at == CHOOSE k \in DOMAIN ErrFixOrder : ErrFixOrder[k].old = old
    IN SubSeq(ErrFixOrder, at + 1, Len(ErrFixOrder))

\* The aliases other than old, in the order _apply_err_fix takes them.
OtherAliases(old) == SelectSeq(ErrFixOrder, LAMBDA f : f.old # old)

\* The name _one makes of a text the alias stage has left.
NameOfFixed(fixed) ==
    Finish(AssembleText(ApplyOpf(fixed), args[2], args[3]), args[3], args[4])

\* The call gave what the rule of the alias long and then the other rules
\* give, at the alias stage and at the end, and no alias taken after long
\* rewrites the replacement of long.
ResolvedVia(text, long, viaLong) ==
    /\ ApplyErrFix(text) = viaLong
    /\ ret = Return(NameOfFixed(viaLong))
    /\ \A k \in DOMAIN AliasesAfter(long.old) :
           ReSub(ErrFixRe(AliasesAfter(long.old)[k].old),
                 AliasesAfter(long.old)[k].new, long.new) = long.new

ViaLongRule(text, long) ==
    HasAlias(text, long.old) =>
        ResolvedVia(text, long,
                    ErrFixLoop(OtherAliases(long.old),
                               ReSub(ErrFixRe(long.old), long.new, text)))

\* C15: alias substitution is longest-alias-first: when an alias has a
\* shorter alias as its leading part, a name holding the longer alias is
\* rewritten by the longer alias's rule (the outcome is that of the longer
\* rule taken first and the other rules after it, not the shorter replacement
\* followed by the leftover words), and no alias applied afterwards rewrites
\* the longer rule's replacement.
C15_LongestAliasFirst ==
    (NameCall /\ ~IsBlank(args[1])) =>
        \A pr \in AliasPairs : ViaLongRule(Std(args[1]), ERR_FIX[pr[2]])

\* 'Тинькофф-Банк России' has come back as 'Т-БАНК РОССИИ'.
C15_Witness ==
    /\ NameCall
    /\ args[1] = <<"T^", "i^", "n^", "q^", "k^", "o^", "f^", "f^", "-", "B^", "a^", "n^", "k^", " ", "R^", "o^", "s^", "s^", "i^", "i^">>
    /\ args[3] = "upper"
    /\ ret.value = <<"T^", "-", "B^", "A^", "N^", "K^", " ", "R^", "O^", "S^", "S^", "I^", "I^">>

\* str.split(' ')
RECURSIVE WordsOf(_)
RECURSIVE WordsAt(_, _)

WordsAt(s, k) ==
    IF k = 0 THEN <<s>>
    ELSE <<SubSeq(s, 1, k - 1)>> \o WordsOf(SubSeq(s, k + 1, Len(s)))

WordsOf(s) == WordsAt(s, Least({k \in DOMAIN s : s[k] = " "}))

\* the word 'Банк' in any case
IsBank(w) == Upper(w) = <<"B^", "A^", "N^", "K^">>

\* The words left when the standalone 'Банк' at the edges picked by drop_bank,
\* and nothing else, is taken from the words w.
EdgeDropped(w, drop_bank) ==
    LET w1 == IF drop_bank \in {"left", "both"} /\ Len(w) > 1 /\ IsBank(w[1]) THEN Tail(w) ELSE w
    IN IF drop_bank \in {"right", "both"} /\ Len(w1) > 1 /\ IsBank(w1[Len(w1)])
       THEN SubSeq(w1, 1, Len(w1) - 1) ELSE w1

\* The name got is the name kept less the edge words picked by drop_bank.
EdgeOutcome(kept, got, drop_bank) ==
    IF kept = None THEN got = None
    ELSE /\ got # None
         /\ WordsOf(got) = EdgeDropped(WordsOf(kept), drop_bank)

\* C17: a standalone 'Банк' is removed only at the edge(s) drop_bank selects:
\* none with 'keep', the leading one with 'left', the trailing one with
\* 'right'; a 'Банк' inside a compound or hyphenated token or in the middle
\* of the name stays.
C17_OnlyEdgeBankDropped ==
    (NameCall /\ ~IsBlank(args[1])) =>
        EdgeOutcome(FinalCleanup(Assembled(args[1], args[2], args[3]), args[3]),
                    ret.value, args[4])

\* The part of C17 the code keeps: step 6 alone takes the edge words only.
C17_StepSixEdgesOnly ==
    (NameCall /\ ~IsBlank(args[1])) =>
        EdgeOutcome(FinalCleanup(Assembled(args[1], args[2], args[3]), args[3]),
                    FinalCleanup(DropBank(Assembled(args[1], args[2], args[3]), args[4]), args[3]),
                    args[4])

====
